---- MODULE Spec2Model ----
(***************************************************************************)
(* UV & Vitamin D tracker (src/src/app/page.tsx): the persisted record,    *)
(* the durable slot, the session timer and the user actions of Home.       *)
(*                                                                         *)
(* Numbers.  baseUv is a decimal with one digit (toFixed(1)), and the      *)
(* attenuation factors are tenths, so they are kept as integers in tenths  *)
(* (baseUv10, attenuation10) and every product is an exact fraction        *)
(* [num, den].  Math.round(x) is floor(x + 1/2).  The binary rounding of   *)
(* IEEE doubles is not modelled.                                           *)
(*                                                                         *)
(* Strings.  A location is the sequence of its character codes, so that    *)
(* the hash of deriveBaseUv and the truthiness test of the load are        *)
(* computed and not assumed.                                               *)
(*                                                                         *)
(* Granularity.  One action is one event (an effect, a click, a change, a  *)
(* timer callback) together with the render and the effects it causes;     *)
(* a handler reads the values of the render that precedes it.              *)
(***************************************************************************)
EXTENDS Integers, Sequences, FiniteSets, TLC

VARIABLES
    state,           \* usePersistedState: the PersistedState record
    ready,           \* usePersistedState: the readiness flag
    sessionActive,   \* Home: useState(false)
    sessionSeconds,  \* Home: useState(0)
    interval,        \* Home: a setInterval timer of the interval effect is live
    storage,         \* localStorage[STORAGE_KEY]
    pc,              \* "mounted" (load effect pending), "loaded" (persist
                     \* effect pending), "ready", "unmounted"
    month,           \* new Date().getMonth()
    lastOp,          \* history: the last operation
    lastWrite,       \* history: the outcome of the most recent write to the slot
    ticks,           \* history: the ticks delivered so far
    writeFailures    \* history: the writes that threw since the last one that did not

vars == <<state, ready, sessionActive, sessionSeconds, interval, storage, pc,
          month, lastOp, lastWrite, ticks, writeFailures>>

\* ------------------------------------------------------------------ bounds
\* ticks delivered in a behaviour; +100 IU is clicked up to MaxProgress;
\* writes that throw in a row
MaxTicks == 2
MaxProgress == 250
MaxWriteFailures == 1

\* --------------------------------------------------------------- constants
ProgressStep == 100
RateConstant == 5
SecondsPerMinute == 60
HashModulus == 700

Max(a, b) == IF a >= b THEN a ELSE b
Min(a, b) == IF a <= b THEN a ELSE b

clothingPresets ==
    [minimal |-> 10, light |-> 8, moderate |-> 6, covered |-> 4]

sunscreenPresets ==
    [none |-> 10, spf15 |-> 6, spf30 |-> 4, spf50 |-> 2]

\* 'San Francisco, CA'
SanFrancisco ==
    <<83, 97, 110, 32, 70, 114, 97, 110, 99, 105, 115, 99, 111, 44, 32, 67, 65>>

defaultPersistedState ==
    [location |-> SanFrancisco, clothing |-> "light", sunscreen |-> "spf30",
     vitaminGoal |-> 1000, vitaminProgress |-> 250]

Fields == DOMAIN defaultPersistedState

\* ------------------------------------------------------------------ inputs
LocationInputs == {<<>>, SanFrancisco}
ClothingInputs == {"light", "covered"}
SunscreenInputs == {"spf30", "none"}
\* the text of the number input: "" and "1000"
GoalInputs == {<<>>, <<1, 0, 0, 0>>}
\* new Date().getMonth(): January
Months == {0}

\* ---------------------------------------------------------- pure functions
RECURSIVE SumCodes(_)
SumCodes(s) == IF s = <<>> THEN 0 ELSE Head(s) + SumCodes(Tail(s))

ToLowerCase(s) == [i \in 1..Len(s) |-> IF s[i] \in 65..90 THEN s[i] + 32 ELSE s[i]]

\* Math.sin((k / 12) * Math.PI) in ten-thousandths, for k = 1..12
SinTwelfths ==
    <<2588, 5000, 7071, 8660, 9659, 10000, 9659, 8660, 7071, 5000, 2588, 0>>

\* Number(Math.min(normalized + seasonalBoost * 3, 11).toFixed(1)), in tenths
deriveBaseUv(location, m) ==
    LET hash == SumCodes(ToLowerCase(location))
        seasonalBoost == SinTwelfths[m + 1]
        den == 35 * 10000
        \* ten times (normalized + seasonalBoost * 3), over den:
        \* 10 * ((hash % 700) / 700 * 6 + 2) = 20 + 3 * (hash % 700) / 35
        num == 20 * den + 3 * (hash % HashModulus) * 10000
                 + 30 * seasonalBoost * 35
    IN  Min((2 * num + den) \div (2 * den), 110)

\* Faulty variant: whole minutes only, Math.floor(seconds / 60).
calculateExposureGainWholeMinutes(seconds, baseUv10, clothing, sunscreen) ==
    LET minutes == [num |-> seconds \div SecondsPerMinute, den |-> 1]
        effectiveUv == [num |-> baseUv10 * clothingPresets[clothing]
                                   * sunscreenPresets[sunscreen],
                        den |-> 1000]
        vitaminGain == [num |-> effectiveUv.num * minutes.num * RateConstant,
                        den |-> effectiveUv.den * minutes.den]
    IN  [effectiveUv |-> effectiveUv, vitaminGain |-> vitaminGain]

calculateExposureGain(seconds, baseUv10, clothing, sunscreen) ==
    LET minutes == [num |-> seconds, den |-> SecondsPerMinute]
        clothingFactor == clothingPresets[clothing]
        sunscreenFactor == sunscreenPresets[sunscreen]
        effectiveUv == [num |-> baseUv10 * clothingFactor * sunscreenFactor,
                        den |-> 1000]
        vitaminGain == [num |-> effectiveUv.num * minutes.num * RateConstant,
                        den |-> effectiveUv.den * minutes.den]
    IN  [effectiveUv |-> effectiveUv, vitaminGain |-> vitaminGain]

\* Math.round(n + q) for an integer n and a fraction q
RoundSum(n, q) == (2 * (n * q.den + q.num) + q.den) \div (2 * q.den)

\* Number(event.target.value || 0) for the text of a number input
RECURSIVE DigitsValue(_)
DigitsValue(text) ==
    IF text = <<>> THEN 0
    ELSE 10 * DigitsValue(SubSeq(text, 1, Len(text) - 1)) + text[Len(text)]

NumberOfInput(text) == IF text = <<>> THEN 0 ELSE DigitsValue(text)

\* ------------------------------------------------------------ durable slot
Absent == [kind |-> "absent"]
Garbage == [kind |-> "garbage"]
JsonNull == [kind |-> "null"]
JsonObject(doc) == [kind |-> "object", doc |-> doc]

\* JSON.stringify(next)
Stringify(next) == JsonObject(next)

EmptyDoc == [f \in {} |-> 0]

\* x || d
IsFalsy(f, v) ==
    CASE f = "location" -> v = <<>>
      [] f \in {"clothing", "sunscreen"} -> v = ""
      [] OTHER -> v = 0

OrDefault(doc, f) ==
    IF f \in DOMAIN doc /\ ~IsFalsy(f, doc[f]) THEN doc[f]
    ELSE defaultPersistedState[f]

\* The app as one record, so that a handler is a function of it.
App ==
    [state |-> state, ready |-> ready, sessionActive |-> sessionActive,
     sessionSeconds |-> sessionSeconds, interval |-> interval,
     storage |-> storage, month |-> month]

\* Faulty variant: the effect returns no cleanup.
IntervalCleanupMissing(app) == app

\* The cleanup returned by the interval effect: clearInterval(interval).
IntervalCleanup(app) == [app EXCEPT !.interval = FALSE]

\* The interval effect, deps [sessionActive]: when sessionActive changed, the
\* cleanup of the previous run (if that run set a timer) is called, and the
\* new run sets a timer if the session is active.
IntervalEffect(before, app) ==
    IF app.sessionActive = before.sessionActive THEN app
    ELSE LET cleaned == IF before.sessionActive THEN IntervalCleanup(app) ELSE app
         IN  IF app.sessionActive THEN [cleaned EXCEPT !.interval = TRUE] ELSE cleaned

\* Faulty variant: setReady(true) at the end of the try block, and no finally.
LoadEffectNoFinally(app, readThrows) ==
    LET raw == app.storage
        loaded == [f \in Fields |-> OrDefault(raw.doc, f)]
    IN  CASE readThrows \/ raw.kind \in {"garbage", "null"} -> app
          [] raw.kind = "absent" -> [app EXCEPT !.ready = TRUE]
          [] OTHER -> [app EXCEPT !.state = loaded, !.ready = TRUE]

\* The load effect of usePersistedState.
LoadEffect(app, readThrows) ==
    LET raw == app.storage
        loaded == [f \in Fields |-> OrDefault(raw.doc, f)]
    IN  CASE readThrows -> [app EXCEPT !.ready = TRUE]       \* getItem throws
          [] raw.kind = "absent" -> [app EXCEPT !.ready = TRUE]   \* raw is null
          [] raw.kind = "garbage" -> [app EXCEPT !.ready = TRUE]  \* JSON.parse throws
          [] raw.kind = "null" -> [app EXCEPT !.ready = TRUE]     \* parsed.location throws
          [] OTHER -> [app EXCEPT !.state = loaded, !.ready = TRUE]

\* Faulty variant: the state is kept only when the write succeeded.
updateStateRollback(app, updates, writeOk) ==
    LET prev == app.state
        next == [f \in Fields |-> IF f \in DOMAIN updates THEN updates[f] ELSE prev[f]]
    IN  IF writeOk THEN [app EXCEPT !.state = next, !.storage = Stringify(next)]
        ELSE app

\* Faulty variant: the updates are written, and not the merged record.
updateStateWritesUpdates(app, updates, writeOk) ==
    LET prev == app.state
        next == [f \in Fields |-> IF f \in DOMAIN updates THEN updates[f] ELSE prev[f]]
    IN  [app EXCEPT !.state = next,
                    !.storage = IF writeOk THEN Stringify(updates) ELSE @]

updateState(app, updates, writeOk) ==
    LET prev == app.state
        next == [f \in Fields |-> IF f \in DOMAIN updates THEN updates[f] ELSE prev[f]]
    IN  [app EXCEPT !.state = next,
                    !.storage = IF writeOk THEN Stringify(next) ELSE @]

handleStart(app) ==
    IF app.sessionActive THEN app
    ELSE IntervalEffect(app, [app EXCEPT !.sessionSeconds = 0, !.sessionActive = TRUE])

\* Faulty variant: no early return when the session is not active.
handleStopUnguarded(app, writeOk) ==
    LET baseUv == deriveBaseUv(app.state.location, app.month)
        gain == calculateExposureGain(app.sessionSeconds, baseUv,
                    app.state.clothing, app.state.sunscreen).vitaminGain
        stopped == [app EXCEPT !.sessionActive = FALSE]
    IN  IntervalEffect(app,
            updateState(stopped,
                [vitaminProgress |-> RoundSum(app.state.vitaminProgress, gain)],
                writeOk))

handleStop(app, writeOk) ==
    IF ~app.sessionActive THEN app
    ELSE LET baseUv == deriveBaseUv(app.state.location, app.month)
             gain == calculateExposureGain(app.sessionSeconds, baseUv,
                         app.state.clothing, app.state.sunscreen).vitaminGain
             stopped == [app EXCEPT !.sessionActive = FALSE]
         IN  IntervalEffect(app,
                 updateState(stopped,
                     [vitaminProgress |-> RoundSum(app.state.vitaminProgress, gain)],
                     writeOk))

\* Faulty variant: setSessionSeconds(0) is missing.
handleResetKeepsSeconds(app) ==
    IntervalEffect(app, [app EXCEPT !.sessionActive = FALSE])

handleReset(app) ==
    IntervalEffect(app, [app EXCEPT !.sessionActive = FALSE, !.sessionSeconds = 0])

changeLocation(app, value, writeOk) == updateState(app, [location |-> value], writeOk)

changeClothing(app, value, writeOk) == updateState(app, [clothing |-> value], writeOk)

changeSunscreen(app, value, writeOk) == updateState(app, [sunscreen |-> value], writeOk)

changeGoal(app, text, writeOk) ==
    updateState(app, [vitaminGoal |-> NumberOfInput(text)], writeOk)

\* Faulty variant: no Math.max.
decrementProgressNoFloor(app, writeOk) ==
    updateState(app, [vitaminProgress |-> app.state.vitaminProgress - ProgressStep], writeOk)

decrementProgress(app, writeOk) ==
    updateState(app,
        [vitaminProgress |-> Max(app.state.vitaminProgress - ProgressStep, 0)], writeOk)

incrementProgress(app, writeOk) ==
    updateState(app, [vitaminProgress |-> app.state.vitaminProgress + ProgressStep], writeOk)

resetProgress(app, writeOk) == updateState(app, [vitaminProgress |-> 0], writeOk)

\* Home, effect with deps [ready]
persistEffect(app, writeOk) ==
    IF ~app.ready THEN app ELSE updateState(app, EmptyDoc, writeOk)

\* the setInterval callback
tick(app) == [app EXCEPT !.sessionSeconds = @ + 1]

\* Teardown of Home: the cleanups of its effects run and its state is dropped.
unmount(app) ==
    LET cleaned == IF app.sessionActive THEN IntervalCleanup(app) ELSE app
    IN  [cleaned EXCEPT !.state = defaultPersistedState, !.ready = FALSE,
                        !.sessionActive = FALSE, !.sessionSeconds = 0]

\* ----------------------------------------------------------------- actions
\* The states of the session timer (spec 4.3).
SessionStateName ==
    IF sessionActive THEN "Running"
    ELSE IF sessionSeconds > 0 THEN "Stopped" ELSE "Idle"

Commit(app) ==
    /\ state' = app.state
    /\ ready' = app.ready
    /\ sessionActive' = app.sessionActive
    /\ sessionSeconds' = app.sessionSeconds
    /\ interval' = app.interval
    /\ storage' = app.storage
    /\ month' = app.month

\* write is "ok", "failed" or "none" (the operation wrote nothing)
Record(op, write) ==
    /\ lastOp' = op
    /\ writeFailures' = CASE write = "failed" -> writeFailures + 1
                          [] write = "ok" -> 0
                          [] OTHER -> writeFailures
    /\ lastWrite' = IF write = "none" THEN lastWrite ELSE write

\* localStorage.setItem returns or throws; at most MaxWriteFailures in a row.
WriteOutcomes == IF writeFailures < MaxWriteFailures THEN BOOLEAN ELSE {TRUE}

WriteName(writeOk) == IF writeOk THEN "ok" ELSE "failed"

Init ==
    /\ state = defaultPersistedState
    /\ ready = FALSE
    /\ sessionActive = FALSE
    /\ sessionSeconds = 0
    /\ interval = FALSE
    /\ storage \in {Absent, Garbage, JsonNull, JsonObject(EmptyDoc)}
    /\ pc = "mounted"
    /\ month \in Months
    /\ lastOp = "init"
    /\ lastWrite = "none"
    /\ ticks = 0
    /\ writeFailures = 0

\* usePersistedState, first effect
Load ==
    /\ pc = "mounted"
    /\ \E readThrows \in BOOLEAN :
          /\ Commit(LoadEffect(App, readThrows))
          /\ Record(IF readThrows THEN "loadThrows" ELSE "load", "none")
    /\ pc' = "loaded"
    /\ UNCHANGED ticks

\* The render that follows the load, and the effect with deps [ready]; the
\* interactive content is rendered only when ready.
Persist ==
    /\ pc = "loaded"
    /\ ready
    /\ \E writeOk \in WriteOutcomes :
          /\ Commit(persistEffect(App, writeOk))
          /\ Record("persist", WriteName(writeOk))
    /\ pc' = "ready"
    /\ UNCHANGED ticks

ChangeLocation ==
    /\ pc = "ready"
    /\ \E v \in LocationInputs, writeOk \in WriteOutcomes :
          /\ Commit(changeLocation(App, v, writeOk))
          /\ Record("edit", WriteName(writeOk))
    /\ UNCHANGED <<pc, ticks>>

ChangeClothing ==
    /\ pc = "ready"
    /\ \E v \in ClothingInputs, writeOk \in WriteOutcomes :
          /\ Commit(changeClothing(App, v, writeOk))
          /\ Record("edit", WriteName(writeOk))
    /\ UNCHANGED <<pc, ticks>>

ChangeSunscreen ==
    /\ pc = "ready"
    /\ \E v \in SunscreenInputs, writeOk \in WriteOutcomes :
          /\ Commit(changeSunscreen(App, v, writeOk))
          /\ Record("edit", WriteName(writeOk))
    /\ UNCHANGED <<pc, ticks>>

ChangeGoal ==
    /\ pc = "ready"
    /\ \E v \in GoalInputs, writeOk \in WriteOutcomes :
          /\ Commit(changeGoal(App, v, writeOk))
          /\ Record("edit", WriteName(writeOk))
    /\ UNCHANGED <<pc, ticks>>

Decrement ==
    /\ pc = "ready"
    /\ \E writeOk \in WriteOutcomes :
          /\ Commit(decrementProgress(App, writeOk))
          /\ Record("dec", WriteName(writeOk))
    /\ UNCHANGED <<pc, ticks>>

Increment ==
    /\ pc = "ready"
    /\ state.vitaminProgress + ProgressStep <= MaxProgress
    /\ \E writeOk \in WriteOutcomes :
          /\ Commit(incrementProgress(App, writeOk))
          /\ Record("inc", WriteName(writeOk))
    /\ UNCHANGED <<pc, ticks>>

ResetProgress ==
    /\ pc = "ready"
    /\ \E writeOk \in WriteOutcomes :
          /\ Commit(resetProgress(App, writeOk))
          /\ Record("resetProgress", WriteName(writeOk))
    /\ UNCHANGED <<pc, ticks>>

Start ==
    /\ pc = "ready"
    /\ Commit(handleStart(App))
    /\ Record("start" \o SessionStateName, "none")
    /\ UNCHANGED <<pc, ticks>>

Stop ==
    /\ pc = "ready"
    /\ \E writeOk \in WriteOutcomes :
          /\ Commit(handleStop(App, writeOk))
          /\ Record("stop" \o SessionStateName,
                    IF sessionActive THEN WriteName(writeOk) ELSE "none")
    /\ UNCHANGED <<pc, ticks>>

Reset ==
    /\ pc = "ready"
    /\ Commit(handleReset(App))
    /\ Record("reset" \o SessionStateName, "none")
    /\ UNCHANGED <<pc, ticks>>

\* The timer fires: only a live timer delivers a tick.
Tick ==
    /\ interval
    /\ ticks < MaxTicks
    /\ Commit(tick(App))
    /\ Record("tick", "none")
    /\ ticks' = ticks + 1
    /\ UNCHANGED pc

Unmount ==
    /\ pc = "ready"
    /\ Commit(unmount(App))
    /\ Record("unmount", "none")
    /\ pc' = "unmounted"
    /\ UNCHANGED ticks

\* A fresh start: Home is constructed again over the same durable slot.
FreshStart ==
    /\ pc = "unmounted"
    /\ Record("construct", "none")
    /\ pc' = "mounted"
    /\ UNCHANGED <<state, ready, sessionActive, sessionSeconds, interval, storage,
                   month, ticks>>

Next ==
    \/ Load
    \/ Persist
    \/ ChangeLocation
    \/ ChangeClothing
    \/ ChangeSunscreen
    \/ ChangeGoal
    \/ Decrement
    \/ Increment
    \/ ResetProgress
    \/ Start
    \/ Stop
    \/ Reset
    \/ Tick
    \/ Unmount
    \/ FreshStart

Spec == Init /\ [][Next]_vars

\* ------------------------------------------------------------------ claims
StopOps == {"stopIdle", "stopStopped"}
ResetOps == {"resetIdle", "resetRunning", "resetStopped"}

\* C1: stop() in a Running session with s elapsed seconds sets
\* vitaminProgress to round(vitaminProgress + baseUv * clothing attenuation *
\* sunscreen attenuation * (s / 60) * 5), with the clothing, sunscreen and
\* location of the moment of the stop, leaves the seconds frozen and ends the
\* session, so that the gain is added once.
StopAddsGainOnce ==
    [][lastOp' = "stopRunning" =>
          /\ state'.vitaminProgress =
                (2 * (state.vitaminProgress * 60000
                        + deriveBaseUv(state.location, month)
                            * clothingPresets[state.clothing]
                            * sunscreenPresets[state.sunscreen]
                            * sessionSeconds * 5)
                   + 60000) \div 120000
          /\ \A f \in Fields \ {"vitaminProgress"} : state'[f] = state[f]
          /\ ~sessionActive'
          /\ sessionSeconds' = sessionSeconds]_vars

\* A stop has just committed a positive gain of a session that received
\* every tick delivered so far.
StopAddedGain ==
    /\ lastOp = "stopRunning"
    /\ sessionSeconds > 0
    /\ sessionSeconds = ticks
    /\ state.vitaminProgress % 50 # 0

\* C2: stop() in a session that is not Running (Idle, or Stopped) changes
\* nothing: not the session, not the persisted record, not the durable slot.
StopWhenNotRunningIsNoOp ==
    [][lastOp' \in StopOps =>
          UNCHANGED <<state, ready, sessionActive, sessionSeconds, interval, storage>>]_vars

\* stop() was called in a Stopped session whose gain had been committed.
StoppedTwice ==
    /\ lastOp = "stopStopped"
    /\ sessionSeconds > 0
    /\ state.vitaminProgress % 50 # 0

\* C3: reset() from any session state gives active = false and
\* elapsedSeconds = 0 and leaves the persisted record and the durable slot
\* as they were.
ResetDiscardsSession ==
    [][lastOp' \in ResetOps =>
          /\ ~sessionActive'
          /\ sessionSeconds' = 0
          /\ UNCHANGED <<state, storage>>]_vars

\* reset() was called in a Running session that had received every tick, and
\* no gain reached vitaminProgress.
ResetWhileRunning ==
    /\ lastOp = "resetRunning"
    /\ ticks = MaxTicks
    /\ state.vitaminProgress % 50 = 0

\* C4: start() from Idle or Stopped sets elapsedSeconds to 0, every tick
\* comes in a Running session and adds 1, and nothing else changes
\* elapsedSeconds but reset() and the teardown, which set it to 0: no tick
\* comes after stop(), reset() or unmount.
ElapsedFollowsTicks ==
    [][/\ lastOp' \in {"startIdle", "startStopped"} =>
             sessionActive' /\ sessionSeconds' = 0
       /\ lastOp' = "tick" =>
             /\ sessionActive /\ pc = "ready"
             /\ sessionSeconds' = sessionSeconds + 1
       /\ sessionSeconds' # sessionSeconds =>
             \/ lastOp' = "tick"
             \/ lastOp' \in {"startIdle", "startStopped"}
             \/ lastOp' \in ResetOps \cup {"unmount"} /\ sessionSeconds' = 0]_vars

\* Two ticks after a start: every tick delivered so far came in this session.
TwoTicksAfterStart ==
    /\ lastOp = "tick"
    /\ sessionActive
    /\ sessionSeconds = 2
    /\ ticks = 2

\* A number field that holds 0; a string is never zero.
IsZero(f, v) == f \in {"vitaminGoal", "vitaminProgress"} /\ v = 0

\* C5: a record saved by updateState and loaded by a fresh start comes back
\* equal in every field that is not zero.
RoundTrip ==
    (lastOp = "load" /\ storage.kind = "object" /\ DOMAIN storage.doc = Fields) =>
        \A f \in Fields : ~IsZero(f, storage.doc[f]) => state[f] = storage.doc[f]

\* C6: the load ends with ready = true on every path, and with the default
\* record when the slot is absent or unparseable or the read throws.
LoadFallsBackToDefaults ==
    /\ pc \in {"loaded", "ready"} => ready
    /\ lastOp \in {"load", "loadThrows"} => pc = "loaded"
    /\ (/\ lastOp \in {"load", "loadThrows"}
        /\ lastOp = "loadThrows" \/ storage.kind \in {"absent", "garbage", "null"})
          => state = defaultPersistedState

\* A load over an unparseable slot.
LoadedGarbage ==
    /\ lastOp = "load"
    /\ storage.kind = "garbage"
    /\ ready

\* C7: when the write of updateState(partial) throws, the caller goes on,
\* the state in memory is the merge of the previous state with the partial,
\* and the durable slot keeps its content.
WriteFailureKeepsState ==
    [][writeFailures' = writeFailures + 1 =>
          /\ storage' = storage
          /\ pc' = "ready"
          /\ lastOp' = "inc" =>
                state' = [state EXCEPT !.vitaminProgress = @ + ProgressStep]
          /\ lastOp' = "dec" =>
                state' = [state EXCEPT !.vitaminProgress = Max(@ - ProgressStep, 0)]
          /\ lastOp' = "resetProgress" =>
                state' = [state EXCEPT !.vitaminProgress = 0]
          /\ lastOp' = "persist" => state' = state
          /\ lastOp' = "stopRunning" =>
                /\ ~sessionActive'
                /\ state'.vitaminProgress >= state.vitaminProgress
                /\ \A f \in Fields \ {"vitaminProgress"} : state'[f] = state[f]
          /\ lastOp' = "edit" =>
                \E f \in Fields \ {"vitaminProgress"} :
                    \A g \in Fields \ {f} : state'[g] = state[g]]_vars

\* The write of a +100 IU click threw.
IncrementNotWritten ==
    /\ lastOp = "inc"
    /\ lastWrite = "failed"
    /\ storage # Stringify(state)

\* C8: vitaminProgress is never below 0, whatever the clicks on -100 IU and
\* the other user actions between them.
ProgressNeverNegative == state.vitaminProgress >= 0

\* A click on -100 IU that ended at the floor.
DecrementedToFloor ==
    /\ lastOp = "dec"
    /\ state.vitaminProgress = 0

\* C9: once the load and its follow-up write have run, and the most recent
\* write succeeded, the durable slot holds the whole five-field record that
\* is in memory.
SlotMirrorsState ==
    (pc = "ready" /\ lastWrite = "ok") =>
        /\ storage.kind = "object"
        /\ DOMAIN storage.doc = Fields
        /\ storage = Stringify(state)

\* A change reached the slot.
ChangePersisted ==
    /\ pc = "ready"
    /\ lastWrite = "ok"
    /\ lastOp \in {"edit", "inc", "dec", "resetProgress", "stopRunning"}
    /\ state # defaultPersistedState

\* The persisted state and the session state of an app.
View(app) == <<app.state, app.sessionActive, app.sessionSeconds>>

Replayed(Handler(_, _), app) ==
    \A writeOk \in BOOLEAN :
        LET once == Handler(app, writeOk)
        IN  View(Handler(once, writeOk)) = View(once)

EditsIdempotent(app) ==
    /\ \A v \in LocationInputs : Replayed(LAMBDA a, w : changeLocation(a, v, w), app)
    /\ \A v \in ClothingInputs : Replayed(LAMBDA a, w : changeClothing(a, v, w), app)
    /\ \A v \in SunscreenInputs : Replayed(LAMBDA a, w : changeSunscreen(a, v, w), app)
    /\ \A v \in GoalInputs : Replayed(LAMBDA a, w : changeGoal(a, v, w), app)
    /\ Replayed(resetProgress, app)

SessionIdempotent(app) ==
    /\ Replayed(LAMBDA a, w : handleStart(a), app)
    /\ Replayed(handleStop, app)
    /\ Replayed(LAMBDA a, w : handleReset(a), app)

\* C10: every user action performed twice in succession leaves the persisted
\* state and the session state as performing it once does.
EveryActionIdempotent ==
    pc = "ready" =>
        /\ EditsIdempotent(App)
        /\ SessionIdempotent(App)
        /\ Replayed(incrementProgress, App)
        /\ Replayed(decrementProgress, App)

\* C10, amended: every user action but +100 IU and -100 IU, performed twice
\* in succession, leaves the persisted state and the session state as
\* performing it once does.
ActionsButStepsIdempotent ==
    pc = "ready" => EditsIdempotent(App) /\ SessionIdempotent(App)

\* start() was called again in the session it had started.
StartReplayed ==
    /\ lastOp = "startRunning"
    /\ sessionActive
====
